---- MODULE Spec2Model ----
(***************************************************************************)
(* Signed metadata of in-toto-rs (src/models/metadata.rs): the builder     *)
(* that accumulates signatures, SignedMetadata with merge_signatures and   *)
(* the threshold verification, and the validated path wrappers.            *)
(*                                                                         *)
(* The crypto and interchange modules (crate::crypto, crate::interchange)  *)
(* and models::helpers::safe_path are collaborators used through their     *)
(* contracts; they are modelled abstractly below.                          *)
(***************************************************************************)
EXTENDS Integers, Sequences, FiniteSets

VARIABLES objs, signLog, parsed, last

vars == <<objs, signLog, parsed, last>>

(***************************************************************************)
(* Bounds of the model.                                                    *)
(***************************************************************************)
NumKeys == 2

MaxThreshold == 2

MaxWireSigs == 2

MaxPathLen == 4

(***************************************************************************)
(* Collaborators: keys, signatures, the data interchange.                  *)
(***************************************************************************)
\* A key pair is identified by a number; its KeyId is that number, and KeyIds
\* are totally ordered by <.
Keys == 1..NumKeys

\* The typed documents M.
Documents == {"build", "deploy"}

\* D::RawData.  Two raw values may differ in layout and still be the same
\* logical document; "notM" is well-formed raw data that is no document M.
RawDatas ==
    { [doc |-> "build", layout |-> 0], [doc |-> "build", layout |-> 1],
      [doc |-> "deploy", layout |-> 0], [doc |-> "notM", layout |-> 0] }

Ok(v) == [ok |-> TRUE, value |-> v]

Err(kind, msg) == [ok |-> FALSE, kind |-> kind, msg |-> msg]

serialize(m) == [doc |-> m, layout |-> 0]

deserialize(raw) ==
    IF raw.doc \in Documents
    THEN Ok(raw.doc)
    ELSE Err("Encoding", [text |-> "not a document"])

\* Canonical bytes do not depend on the layout; canonicalization of the raw
\* values considered here does not fail.
canonicalize(raw) == <<"canonical", raw.doc>>

\* PrivateKey::sign of a deterministic scheme (Ed25519): the value binds the
\* signing key and the signed bytes.
PrivateKeySign(key, bytes) == [key_id |-> key, value |-> <<key, bytes>>]

\* PublicKey::verify of the public key of `key`.
PublicKeyVerify(key, bytes, sig) == sig.value = <<key, bytes>>

\* A signature the key made over the bytes of some other document.
StaleSignature(key) == PrivateKeySign(key, <<"canonical", "stale">>)

(***************************************************************************)
(* Sequence helpers.                                                       *)
(***************************************************************************)
KeyIdsOf(sigs) == {sigs[i].key_id : i \in 1..Len(sigs)}

\* The orders in which the n entries of a HashMap may be iterated.
Orderings(n) == {o \in [1..n -> 1..n] : \A i, j \in 1..n : o[i] = o[j] => i = j}

Permute(s, o) == [i \in 1..Len(s) |-> s[o[i]]]

\* Vec::sort_unstable_by(|a, b| a.key_id().cmp(b.key_id())), as insertion
\* sort; the keys of the sorted sequences are distinct, so stability is moot.
RECURSIVE InsertSorted(_, _)
InsertSorted(s, x) ==
    IF s = <<>> THEN <<x>>
    ELSE IF x.key_id < Head(s).key_id THEN <<x>> \o s
    ELSE <<Head(s)>> \o InsertSorted(Tail(s), x)

RECURSIVE SortByKeyId(_)
SortByKeyId(s) ==
    IF s = <<>> THEN <<>>
    ELSE InsertSorted(SortByKeyId(Tail(s)), Head(s))

(***************************************************************************)
(* SignedMetadataBuilder.                                                  *)
(***************************************************************************)
\* A faulty variant of HashMapInsert: the entry is added beside an entry of the same key.
HashMapInsert_keep_both(m, sig) == InsertSorted(m, sig)

\* HashMap<KeyId, Signature>::insert.  A map is held as the sequence of its
\* entries in ascending key order; the order of iteration is chosen freely
\* wherever a map is iterated (Orderings).
HashMapInsert(m, sig) ==
    InsertSorted(SelectSeq(m, LAMBDA e : e.key_id # sig.key_id), sig)

\* A faulty variant of from_raw_metadata: the bytes to sign are not canonicalized.
from_raw_metadata_uncanonical(metadata) ==
    IF ~deserialize(metadata).ok
    THEN deserialize(metadata)
    ELSE Ok([type |-> "SignedMetadataBuilder",
             signatures |-> <<>>,
             metadata |-> metadata,
             metadata_bytes |-> <<"raw", metadata.doc, metadata.layout>>])

from_raw_metadata(metadata) ==
    IF ~deserialize(metadata).ok
    THEN deserialize(metadata)
    ELSE Ok([type |-> "SignedMetadataBuilder",
             signatures |-> <<>>,
             metadata |-> metadata,
             metadata_bytes |-> canonicalize(metadata)])

from_metadata(m) == from_raw_metadata(serialize(m))

sign(b, private_key) ==
    [b EXCEPT !.signatures =
        HashMapInsert(b.signatures, PrivateKeySign(private_key, b.metadata_bytes))]

\* A faulty variant of build: the entries are left in the map's iteration order.
build_unsorted(b, order) ==
    [type |-> "SignedMetadata",
     signatures |-> Permute(b.signatures, order),
     metadata |-> b.metadata]

\* `order` is the order in which into_iter() yields the map's entries.
build(b, order) ==
    [type |-> "SignedMetadata",
     signatures |-> SortByKeyId(Permute(b.signatures, order)),
     metadata |-> b.metadata]

(***************************************************************************)
(* SignedMetadata.                                                         *)
(***************************************************************************)
SignedMetadata_new(m, private_key) ==
    [type |-> "SignedMetadata",
     signatures |-> <<PrivateKeySign(private_key, canonicalize(serialize(m)))>>,
     metadata |-> serialize(m)]

\* A faulty variant of merge_signatures: on a common key id the signature of other
\* replaces that of self.
merge_signatures_other_wins(self, other) ==
    IF self.metadata # other.metadata
    THEN [result |-> Err("IllegalArgument",
                         [text |-> "Attempted to merge unequal metadata"]),
          self |-> self]
    ELSE LET key_ids == KeyIdsOf(other.signatures)
             kept == SelectSeq(self.signatures, LAMBDA s : s.key_id \notin key_ids)
         IN [result |-> Ok("unit"),
             self |-> [self EXCEPT !.signatures = kept \o other.signatures]]

\* A faulty variant of merge_signatures: the payloads are not compared.
merge_signatures_unchecked(self, other) ==
    LET key_ids == KeyIdsOf(self.signatures)
        added == SelectSeq(other.signatures, LAMBDA s : s.key_id \notin key_ids)
    IN [result |-> Ok("unit"),
        self |-> [self EXCEPT !.signatures = self.signatures \o added]]

merge_signatures(self, other) ==
    IF self.metadata # other.metadata
    THEN [result |-> Err("IllegalArgument",
                         [text |-> "Attempted to merge unequal metadata"]),
          self |-> self]
    ELSE LET key_ids == KeyIdsOf(self.signatures)
             added == SelectSeq(other.signatures, LAMBDA s : s.key_id \notin key_ids)
         IN [result |-> Ok("unit"),
             self |-> [self EXCEPT !.signatures = self.signatures \o added]]

assume_valid(self) == deserialize(self.metadata)

\* A faulty variant of CollectByKeyId: the stored sequence is scanned as it is.
CollectWithoutDedup(sigs) == sigs

\* The map the signatures are collected into before the scan (lines 273-277):
\* for a key id with several entries the last entry of the sequence survives.
RECURSIVE CollectByKeyId(_)
CollectByKeyId(sigs) ==
    IF sigs = <<>> THEN <<>>
    ELSE HashMapInsert(CollectByKeyId(SubSeq(sigs, 1, Len(sigs) - 1)),
                       sigs[Len(sigs)])

\* The loop of verify (lines 278-299) over the entries in iteration order;
\* returns signatures_needed after the loop.
RECURSIVE VerifyScan(_, _, _, _)
VerifyScan(entries, authorized_keys, canonical_bytes, signatures_needed) ==
    IF entries = <<>> THEN signatures_needed
    ELSE LET sig == Head(entries)
             needed ==
                 IF /\ sig.key_id \in authorized_keys
                    /\ PublicKeyVerify(sig.key_id, canonical_bytes, sig)
                 THEN signatures_needed - 1
                 ELSE signatures_needed
         IN IF needed = 0 THEN 0
            ELSE VerifyScan(Tail(entries), authorized_keys, canonical_bytes, needed)

\* A faulty variant of verify: the threshold is not checked to be at least 1.
verify_any_threshold(self, threshold, authorized_keys, order) ==
    IF self.signatures = <<>>
    THEN Err("VerificationFailure",
             [text |-> "The metadata was not signed with any authorized keys."])
    ELSE LET signatures_needed ==
                 VerifyScan(Permute(CollectByKeyId(self.signatures), order),
                            authorized_keys, canonicalize(self.metadata), threshold)
         IN IF signatures_needed > 0
            THEN Err("VerificationFailure",
                     [text |-> "Signature threshold not met: {}/{}",
                      satisfied |-> threshold - signatures_needed,
                      required |-> threshold])
            ELSE assume_valid(self)

\* A faulty variant of verify: the failure reports the signatures still needed.
verify_reports_needed(self, threshold, authorized_keys, order) ==
    IF self.signatures = <<>>
    THEN Err("VerificationFailure",
             [text |-> "The metadata was not signed with any authorized keys."])
    ELSE IF threshold < 1
    THEN Err("VerificationFailure",
             [text |-> "Threshold must be strictly greater than zero"])
    ELSE LET signatures_needed ==
                 VerifyScan(Permute(CollectByKeyId(self.signatures), order),
                            authorized_keys, canonicalize(self.metadata), threshold)
         IN IF signatures_needed > 0
            THEN Err("VerificationFailure",
                     [text |-> "Signature threshold not met: {}/{}",
                      satisfied |-> signatures_needed,
                      required |-> threshold])
            ELSE assume_valid(self)

\* `order` is the order in which the map of signatures is iterated.
verify(self, threshold, authorized_keys, order) ==
    IF self.signatures = <<>>
    THEN Err("VerificationFailure",
             [text |-> "The metadata was not signed with any authorized keys."])
    ELSE IF threshold < 1
    THEN Err("VerificationFailure",
             [text |-> "Threshold must be strictly greater than zero"])
    ELSE LET signatures_needed ==
                 VerifyScan(Permute(CollectByKeyId(self.signatures), order),
                            authorized_keys, canonicalize(self.metadata), threshold)
         IN IF signatures_needed > 0
            THEN Err("VerificationFailure",
                     [text |-> "Signature threshold not met: {}/{}",
                      satisfied |-> threshold - signatures_needed,
                      required |-> threshold])
            ELSE assume_valid(self)

(***************************************************************************)
(* RawSignedMetadata: the wire form and its parse.                         *)
(***************************************************************************)
Malformed == [malformed |-> TRUE]

\* The signatures a document on the wire may carry for payload `raw`: for
\* every key id, the key's signature over the payload's canonical bytes and
\* a signature that is not over these bytes.
WireSignatures(raw) ==
    {PrivateKeySign(k, canonicalize(raw)) : k \in Keys}
        \cup {StaleSignature(k) : k \in Keys}

SeqsUpTo(S, n) == UNION {[1..m -> S] : m \in 0..n}

\* The byte buffers handed to RawSignedMetadata::new, with at most n
\* signatures.
WireBytes(n) ==
    {Malformed} \cup
    UNION {{[signatures |-> sigs, signed |-> raw] :
                sigs \in SeqsUpTo(WireSignatures(raw), n)} :
           raw \in RawDatas}

\* The byte buffers of documents that carry the signature of one signer.
ForeignBytes ==
    {Malformed} \cup
    UNION {{[signatures |-> <<sig>>, signed |-> raw] : sig \in WireSignatures(raw)} :
           raw \in RawDatas}

\* D::from_slice for SignedMetadata: field "signed" is the payload.
from_slice(bytes) ==
    IF bytes = Malformed
    THEN Err("Encoding", [text |-> "malformed"])
    ELSE Ok([type |-> "SignedMetadata",
             signatures |-> bytes.signatures,
             metadata |-> bytes.signed])

parse(bytes) == from_slice(bytes)

(***************************************************************************)
(* Paths.  A string is the sequence of its characters.                     *)
(***************************************************************************)
Chars == {"/", ".", "f"}

\* str::split('/'): the components between separators, empty ones included.
RECURSIVE Split(_)
Split(s) ==
    IF \A i \in 1..Len(s) : s[i] # "/" THEN <<s>>
    ELSE LET i == CHOOSE j \in 1..Len(s) :
                      s[j] = "/" /\ \A k \in 1..(j - 1) : s[k] # "/"
         IN <<SubSeq(s, 1, i - 1)>> \o Split(SubSeq(s, i + 1, Len(s)))

safe_path(path) ==
    IF path = <<>> THEN Err("IllegalArgument", [text |-> "Path cannot be empty"])
    ELSE IF Head(path) = "/"
    THEN Err("IllegalArgument", [text |-> "Cannot start with '/'"])
    ELSE IF \E i \in 1..Len(Split(path)) : Split(path)[i] = <<".", ".">>
    THEN Err("IllegalArgument", [text |-> "Path cannot have component .."])
    ELSE Ok("unit")

MetadataPath_new(path) ==
    IF ~safe_path(path).ok THEN safe_path(path)
    ELSE Ok([type |-> "MetadataPath", inner |-> path])

\* A faulty variant of TargetPath_new: the result of safe_path is dropped.
TargetPath_new_unchecked(path) == Ok([type |-> "TargetPath", inner |-> path])

TargetPath_new(path) ==
    IF ~safe_path(path).ok THEN safe_path(path)
    ELSE Ok([type |-> "TargetPath", inner |-> path])

(***************************************************************************)
(* The state machine.                                                      *)
(*   objs     per slot, the value held: a SignedMetadataBuilder, a         *)
(*            SignedMetadata, or nothing                                   *)
(*   signLog  history, per slot: the keys that signed with the builder and *)
(*            whether a key signed more than once                          *)
(*   parsed   history, per slot: whether the SignedMetadata derives from   *)
(*            RawSignedMetadata::parse (directly or by a merge)            *)
(*   last     the latest call: its arguments, the value it was applied to  *)
(*            and its result                                               *)
(***************************************************************************)
Slots == {"a", "b"}

Nothing == [type |-> "none"]

EmptyLog == [signers |-> {}, resigned |-> FALSE]

IsBuilder(slot) == objs[slot].type = "SignedMetadataBuilder"

IsSigned(slot) == objs[slot].type = "SignedMetadata"

Init ==
    /\ objs = [s \in Slots |-> Nothing]
    /\ signLog = [s \in Slots |-> EmptyLog]
    /\ parsed = [s \in Slots |-> FALSE]
    /\ last = [op |-> "init"]

StartBuilder(slot, op, res) ==
    /\ objs[slot] = Nothing
    /\ objs' = [objs EXCEPT ![slot] = IF res.ok THEN res.value ELSE Nothing]
    /\ last' = [op |-> op, slot |-> slot, ok |-> res.ok]
    /\ UNCHANGED <<signLog, parsed>>

FromMetadata ==
    \E slot \in Slots, m \in Documents :
        StartBuilder(slot, "from_metadata", from_metadata(m))

FromRawMetadata ==
    \E slot \in Slots, raw \in RawDatas :
        StartBuilder(slot, "from_raw_metadata", from_raw_metadata(raw))

Sign ==
    \E slot \in Slots, key \in Keys :
        /\ IsBuilder(slot)
        /\ objs' = [objs EXCEPT ![slot] = sign(objs[slot], key)]
        /\ signLog' = [signLog EXCEPT ![slot] =
                          [signers |-> @.signers \cup {key},
                           resigned |-> @.resigned \/ key \in @.signers]]
        /\ last' = [op |-> "sign", slot |-> slot, key |-> key, pre |-> objs[slot]]
        /\ UNCHANGED parsed

Build ==
    \E slot \in Slots :
        /\ IsBuilder(slot)
        /\ \E order \in Orderings(Len(objs[slot].signatures)) :
               objs' = [objs EXCEPT ![slot] = build(objs[slot], order)]
        /\ signLog' = [signLog EXCEPT ![slot] = EmptyLog]
        /\ last' = [op |-> "build", slot |-> slot, log |-> signLog[slot]]
        /\ UNCHANGED parsed

New ==
    \E slot \in Slots, m \in Documents, key \in Keys :
        /\ objs[slot] = Nothing
        /\ objs' = [objs EXCEPT ![slot] = SignedMetadata_new(m, key)]
        /\ last' = [op |-> "new", slot |-> slot, doc |-> m, key |-> key]
        /\ UNCHANGED <<signLog, parsed>>

Parse(slot, bytes) ==
    /\ objs[slot] = Nothing
    /\ IF parse(bytes).ok
       THEN /\ objs' = [objs EXCEPT ![slot] = parse(bytes).value]
            /\ parsed' = [parsed EXCEPT ![slot] = TRUE]
       ELSE UNCHANGED <<objs, parsed>>
    /\ last' = [op |-> "parse", slot |-> slot, ok |-> parse(bytes).ok]
    /\ UNCHANGED signLog

\* A document received from elsewhere, to be merged into or verified.
ParseForeign ==
    \E slot \in Slots, bytes \in ForeignBytes : Parse(slot, bytes)

Merge ==
    \E self \in Slots, other \in Slots :
        /\ self # other
        /\ IsSigned(self)
        /\ IsSigned(other)
        /\ LET r == merge_signatures(objs[self], objs[other])
           IN /\ objs' = [objs EXCEPT ![self] = r.self]
              /\ parsed' = [parsed EXCEPT ![self] = @ \/ (r.result.ok /\ parsed[other])]
              /\ last' = [op |-> "merge_signatures", self |-> self, other |-> other,
                          pre |-> objs[self], result |-> r.result]
        /\ UNCHANGED signLog

Verify ==
    \E slot \in Slots, threshold \in 0..MaxThreshold, authorized_keys \in SUBSET Keys :
        /\ IsSigned(slot)
        /\ \E order \in Orderings(Len(CollectByKeyId(objs[slot].signatures))) :
               last' = [op |-> "verify", slot |-> slot, threshold |-> threshold,
                        authorized_keys |-> authorized_keys,
                        result |-> verify(objs[slot], threshold, authorized_keys, order)]
        /\ UNCHANGED <<objs, signLog, parsed>>

\* The value of a slot goes out of scope.
Drop ==
    \E slot \in Slots :
        /\ objs[slot] # Nothing
        /\ objs' = [objs EXCEPT ![slot] = Nothing]
        /\ signLog' = [signLog EXCEPT ![slot] = EmptyLog]
        /\ parsed' = [parsed EXCEPT ![slot] = FALSE]
        /\ last' = [op |-> "drop", slot |-> slot]

Next ==
    \/ FromMetadata
    \/ FromRawMetadata
    \/ Sign
    \/ Build
    \/ New
    \/ ParseForeign
    \/ Merge
    \/ Drop

Spec == Init /\ [][Next]_vars

(***************************************************************************)
(* Verification of documents as received: one slot, any wire document of   *)
(* up to MaxWireSigs signatures.                                           *)
(***************************************************************************)
ParseWire == \E bytes \in WireBytes(MaxWireSigs) : Parse("a", bytes)

NextVerify ==
    \/ ParseWire
    \/ Verify
    \/ Drop

SpecVerify == Init /\ [][NextVerify]_vars

(***************************************************************************)
(* Signing by several parties up to a threshold: builders, build, merge    *)
(* and verify.                                                             *)
(***************************************************************************)
NextThreshold ==
    \/ FromMetadata
    \/ Sign
    \/ Build
    \/ Merge
    \/ Verify
    \/ Drop

SpecThreshold == Init /\ [][NextThreshold]_vars

(***************************************************************************)
(* Path construction.                                                      *)
(***************************************************************************)
Str_foo == <<"f", "o", "o">>

Str_bar == <<"b", "a", "r">>

\* The strings of the documentation of MetadataPath::new (lines 334-341).
DocExamples ==
    { Str_foo,
      <<"/">> \o Str_foo,
      <<".", ".", "/">> \o Str_foo,
      Str_foo \o <<"/", ".", ".">>,
      Str_foo \o <<"/", ".", ".", "/">> \o Str_bar,
      <<".", ".">> \o Str_foo,
      Str_foo \o <<"/", ".", ".">> \o Str_bar,
      Str_foo \o <<"/">> \o Str_bar \o <<".", ".">> }

PathInputs == SeqsUpTo(Chars, MaxPathLen) \cup DocExamples

MetadataPathNew ==
    \E path \in PathInputs :
        /\ last' = [op |-> "MetadataPath::new", path |-> path,
                    result |-> MetadataPath_new(path)]
        /\ UNCHANGED <<objs, signLog, parsed>>

TargetPathNew ==
    \E path \in PathInputs :
        /\ last' = [op |-> "TargetPath::new", path |-> path,
                    result |-> TargetPath_new(path)]
        /\ UNCHANGED <<objs, signLog, parsed>>

NextPath ==
    \/ MetadataPathNew
    \/ TargetPathNew

SpecPath == Init /\ [][NextPath]_vars

(***************************************************************************)
(* Properties.                                                             *)
(***************************************************************************)
IsCall(op) == last.op = op

\* The key ids of `keys` that have, somewhere in the stored sequence, a
\* signature that verifies over the canonical bytes of the payload.
ValidKeyIds(doc, keys) ==
    {k \in keys :
        \E i \in 1..Len(doc.signatures) :
            /\ doc.signatures[i].key_id = k
            /\ PublicKeyVerify(k, canonicalize(doc.metadata), doc.signatures[i])}

\* The signatures of `sigs` that carry key id k, in order.
EntriesOf(sigs, k) == SelectSeq(sigs, LAMBDA e : e.key_id = k)

OverPayload(doc) ==
    \A i \in 1..Len(doc.signatures) :
        \E k \in Keys :
            doc.signatures[i] = PrivateKeySign(k, canonicalize(doc.metadata))

ThresholdNotMet(satisfied, required) ==
    Err("VerificationFailure",
        [text |-> "Signature threshold not met: {}/{}",
         satisfied |-> satisfied, required |-> required])

\* C1: for thresholds of at least 1 and a payload that deserializes (the
\* cases the threshold decides), verify(t, K) succeeds if and only if at
\* least t distinct key ids of K have a valid signature over the canonical
\* bytes of the document, whatever else the stored sequence holds.
C1_VerifyIffThresholdOfValidKeys ==
    (/\ IsCall("verify")
     /\ last.threshold >= 1
     /\ deserialize(objs[last.slot].metadata).ok)
        => (last.result.ok <=>
                Cardinality(ValidKeyIds(objs[last.slot], last.authorized_keys))
                    >= last.threshold)

\* C2: verify fails with VerificationFailure whenever the threshold is below
\* 1 and whenever the document carries no signature.
C2_RejectsZeroThresholdAndUnsigned ==
    (/\ IsCall("verify")
     /\ \/ last.threshold < 1
        \/ objs[last.slot].signatures = <<>>)
        => /\ ~last.result.ok
           /\ last.result.kind = "VerificationFailure"

C2_Witness ==
    /\ IsCall("verify")
    /\ last.threshold = 0
    /\ Cardinality(ValidKeyIds(objs[last.slot], last.authorized_keys)) = NumKeys
    /\ ~last.result.ok

\* C7: a key id is credited at most once: verify succeeds only if at least
\* threshold distinct authorized key ids have a valid signature, and the
\* count a threshold failure reports never exceeds the number of such key
\* ids.
C7_OneCreditPerKeyId ==
    IsCall("verify")
        => LET valid == ValidKeyIds(objs[last.slot], last.authorized_keys)
           IN /\ last.result.ok => Cardinality(valid) >= last.threshold
              /\ (~last.result.ok /\ "satisfied" \in DOMAIN last.result.msg)
                     => last.result.msg.satisfied <= Cardinality(valid)

C7_Witness ==
    /\ IsCall("verify")
    /\ Len(objs[last.slot].signatures) = 2
    /\ objs[last.slot].signatures[1] = objs[last.slot].signatures[2]
    /\ ValidKeyIds(objs[last.slot], last.authorized_keys) # {}
    /\ last.threshold = 2
    /\ last.result = ThresholdNotMet(1, 2)

\* The key ids the scan of verify credits: those of `keys` whose surviving
\* entry verifies over the canonical bytes.
Credited(doc, keys) ==
    {k \in keys :
        \E i \in 1..Len(CollectByKeyId(doc.signatures)) :
            LET e == CollectByKeyId(doc.signatures)[i]
            IN e.key_id = k /\ PublicKeyVerify(k, canonicalize(doc.metadata), e)}

\* C5: on a signed document and a threshold of at least 1, verify fails with
\* "satisfied/required" where satisfied is the number of signatures credited
\* when these are fewer than the threshold (a document signed by K1 alone
\* gives 1/2 for threshold 2 and keys {K1, K2}), and otherwise returns the
\* document that was signed (so after merging K2's signature of the same
\* document, threshold 2 is met).
C5_ReportsCreditedThenSucceedsAfterMerge ==
    (/\ IsCall("verify")
     /\ last.threshold >= 1
     /\ objs[last.slot].signatures # <<>>)
        => LET doc == objs[last.slot]
               credited == Cardinality(Credited(doc, last.authorized_keys))
           IN /\ credited < last.threshold
                    => last.result = ThresholdNotMet(credited, last.threshold)
              /\ credited >= last.threshold
                    => /\ last.result.ok
                       /\ serialize(last.result.value) = doc.metadata

\* K1's document after K2's signature was merged into it, verified with
\* threshold 2 against {K1, K2}.
C5_Witness ==
    /\ IsCall("verify")
    /\ last.threshold = 2
    /\ last.authorized_keys = {1, 2}
    /\ IsSigned("a")
    /\ IsSigned("b")
    /\ objs["a"].signatures =
           <<PrivateKeySign(1, canonicalize(serialize("build"))),
             PrivateKeySign(2, canonicalize(serialize("build")))>>
    /\ objs["b"].signatures = <<PrivateKeySign(2, canonicalize(serialize("build")))>>
    /\ last.slot = "a"
    /\ last.result = Ok("build")

\* C3: a builder holds, and build() returns, exactly one signature for every
\* key that signed, however often the key signed, and no other signature.
C3_OneSignaturePerSigner ==
    /\ \A slot \in Slots :
           IsBuilder(slot)
               => /\ KeyIdsOf(objs[slot].signatures) = signLog[slot].signers
                  /\ Len(objs[slot].signatures) = Cardinality(signLog[slot].signers)
    /\ IsCall("build")
           => /\ KeyIdsOf(objs[last.slot].signatures) = last.log.signers
              /\ Len(objs[last.slot].signatures) = Cardinality(last.log.signers)
              /\ OverPayload(objs[last.slot])

C3_Witness ==
    /\ IsCall("build")
    /\ last.log.resigned
    /\ last.log.signers = Keys
    /\ Len(objs[last.slot].signatures) = NumKeys

\* C9: a builder's metadata_bytes are canonicalize(metadata), every signature
\* it holds is over these bytes, and sign leaves metadata and metadata_bytes
\* as they were.
C9_BuilderBytesAreCanonical ==
    /\ \A slot \in Slots :
           IsBuilder(slot)
               => /\ objs[slot].metadata_bytes = canonicalize(objs[slot].metadata)
                  /\ \A i \in 1..Len(objs[slot].signatures) :
                         objs[slot].signatures[i].value[2]
                             = canonicalize(objs[slot].metadata)
    /\ IsCall("sign")
           => /\ objs[last.slot].metadata = last.pre.metadata
              /\ objs[last.slot].metadata_bytes = last.pre.metadata_bytes

C9_Witness ==
    /\ IsCall("sign")
    /\ objs[last.slot].metadata = [doc |-> "build", layout |-> 1]
    /\ Len(last.pre.signatures) = 1
    /\ Len(objs[last.slot].signatures) = 2

\* C4: merge_signatures fails with IllegalArgument when the raw payloads
\* differ; otherwise it succeeds, the key ids of self become the union of
\* those of self and of other, and for a key id both carried, self keeps the
\* signatures it had.
C4_MergeIsUnionKeepingSelf ==
    IsCall("merge_signatures")
        => LET pre == last.pre
               self == objs[last.self]
               other == objs[last.other]
           IN IF pre.metadata # other.metadata
              THEN /\ ~last.result.ok
                   /\ last.result.kind = "IllegalArgument"
              ELSE /\ last.result.ok
                   /\ KeyIdsOf(self.signatures)
                          = KeyIdsOf(pre.signatures) \cup KeyIdsOf(other.signatures)
                   /\ \A k \in KeyIdsOf(pre.signatures) \cap KeyIdsOf(other.signatures) :
                          EntriesOf(self.signatures, k) = EntriesOf(pre.signatures, k)

\* self and other carry different signatures for a common key id, and other
\* brings a key id self did not have.
C4_Witness ==
    /\ IsCall("merge_signatures")
    /\ last.result.ok
    /\ Len(objs[last.self].signatures) > Len(last.pre.signatures)
    /\ \E k \in KeyIdsOf(last.pre.signatures) :
           /\ EntriesOf(objs[last.other].signatures, k) # <<>>
           /\ EntriesOf(objs[last.other].signatures, k)
                  # EntriesOf(last.pre.signatures, k)

\* C8 as stated: every signature of every SignedMetadata, however it was
\* obtained (parse included), is some key's signature over the canonical
\* bytes of the payload it is attached to.
C8_EverySignatureOverPayload ==
    \A slot \in Slots : IsSigned(slot) => OverPayload(objs[slot])

\* C8 as amended: every signature of a SignedMetadata that was obtained from
\* SignedMetadata::new, from a builder's build and from merges among such
\* values is some key's signature over the canonical bytes of the payload;
\* a value that parse returned, or that merged one, is not covered.
C8_SignaturesOverPayloadUnlessParsed ==
    \A slot \in Slots : (IsSigned(slot) /\ ~parsed[slot]) => OverPayload(objs[slot])

C8_Witness ==
    /\ IsCall("merge_signatures")
    /\ last.result.ok
    /\ ~parsed[last.self]
    /\ Len(last.pre.signatures) = 1
    /\ Len(objs[last.self].signatures) = 2
    /\ objs[last.self].metadata.layout = 1

IsAscending(sigs) ==
    \A i \in 1..(Len(sigs) - 1) : sigs[i].key_id < sigs[i + 1].key_id

\* C10: build() returns the signatures in ascending KeyId order; a successful
\* merge_signatures leaves self's signatures in place and appends those of
\* other whose key id self lacked, in other's order; a failed one leaves the
\* sequence as it was.
C10_BuildSortsMergeAppends ==
    /\ IsCall("build") => IsAscending(objs[last.slot].signatures)
    /\ IsCall("merge_signatures")
           => LET pre == last.pre.signatures
                  now == objs[last.self].signatures
                  other == objs[last.other].signatures
              IN IF last.result.ok
                 THEN /\ Len(now) >= Len(pre)
                      /\ SubSeq(now, 1, Len(pre)) = pre
                      /\ SubSeq(now, Len(pre) + 1, Len(now))
                             = SelectSeq(other, LAMBDA e : e.key_id \notin KeyIdsOf(pre))
                 ELSE now = pre

\* A merge that leaves self out of KeyId order.
C10_Witness ==
    /\ IsCall("merge_signatures")
    /\ last.result.ok
    /\ IsAscending(last.pre.signatures)
    /\ IsAscending(objs[last.other].signatures)
    /\ Len(objs[last.self].signatures) > Len(last.pre.signatures)
    /\ ~IsAscending(objs[last.self].signatures)

\* The component s[i..j] of path s is delimited by '/' or the ends of s.
IsComponent(s, i, j) ==
    /\ i = 1 \/ s[i - 1] = "/"
    /\ j = Len(s) \/ s[j + 1] = "/"
    /\ \A k \in i..j : s[k] # "/"

HasDotDotComponent(s) ==
    \E i \in 1..(Len(s) - 1) : s[i] = "." /\ s[i + 1] = "." /\ IsComponent(s, i, i + 1)

Acceptable(s) == s # <<>> /\ s[1] # "/" /\ ~HasDotDotComponent(s)

AcceptedExamples ==
    { Str_foo,
      <<".", ".">> \o Str_foo,
      Str_foo \o <<"/", ".", ".">> \o Str_bar,
      Str_foo \o <<"/">> \o Str_bar \o <<".", ".">> }

RejectedExamples ==
    { <<>>,
      <<"/">> \o Str_foo,
      <<".", ".", "/">> \o Str_foo,
      Str_foo \o <<"/", ".", ".">>,
      Str_foo \o <<"/", ".", ".", "/">> \o Str_bar }

\* C6: MetadataPath::new and TargetPath::new accept a string exactly when it
\* is not empty, does not start with '/' and has no component "..", which
\* accepts and rejects the documented examples; an accepted string is stored
\* as given.
C6_PathAcceptedIffSafe ==
    (IsCall("MetadataPath::new") \/ IsCall("TargetPath::new"))
        => /\ last.result.ok <=> Acceptable(last.path)
           /\ last.path \in AcceptedExamples => last.result.ok
           /\ last.path \in RejectedExamples => ~last.result.ok
           /\ last.result.ok => last.result.value.inner = last.path

C6_Witness ==
    /\ IsCall("TargetPath::new")
    /\ last.path = Str_foo \o <<"/", ".", ".">> \o Str_bar
    /\ last.result.ok
    /\ last.result.value.inner = last.path

====
